---- MODULE Spec2Model ----
(***************************************************************************)
(* A model of GroupiesBet.py, a Discord bot that answers "!G <command>"    *)
(* messages with basketball odds and schedules fetched from the Odds API.  *)
(*                                                                         *)
(* Texts are TLA+ strings, one character per Python code point; Len, \o    *)
(* and SubSeq act on them as len(), + and slicing do in Python.  A TLA+    *)
(* string literal can hold neither a backquote nor a non-ASCII character,  *)
(* so each of these is written as one ASCII character that the program's   *)
(* texts do not otherwise use: the backquote as an apostrophe (FENCE), the *)
(* six glyphs of the renderers as the GLYPH_ definitions.  Every one is    *)
(* one code point in Python, so all lengths are the program's.             *)
(***************************************************************************)
EXTENDS Integers, Sequences, FiniteSets, TLC

VARIABLES
    op,        \* the operation that ran last ("none" before the first one)
    arg,       \* the inputs it ran on
    sent,      \* the messages it passed to channel.send, in order
    requests,  \* the URLs it passed to requests.get, in order
    ret        \* what it returned, or the exception it raised

vars == <<op, arg, sent, requests, ret>>

(***************************************************************************)
(* Python's str primitives.                                                *)
(***************************************************************************)
Min(a, b) == IF a <= b THEN a ELSE b
Max(a, b) == IF a >= b THEN a ELSE b

\* s[start:stop], a negative index counting from the end, both clamped
ClampIndex(i, n) == IF i < 0 THEN Max(i + n, 0) ELSE Min(i, n)
Slice(s, start, stop) ==
    SubSeq(s, ClampIndex(start, Len(s)) + 1, ClampIndex(stop, Len(s)))

StartsWith(s, p) == Len(s) >= Len(p) /\ SubSeq(s, 1, Len(p)) = p
EndsWith(s, p) == Len(s) >= Len(p) /\ SubSeq(s, Len(s) - Len(p) + 1, Len(s)) = p

\* No value and no exception
None == [t |-> "None"]

(***************************************************************************)
(* send_long_message: the chunked sender.  The value is the sequence of    *)
(* texts passed to channel.send.                                           *)
(***************************************************************************)
FENCE == "'''"
FENCED_CHUNK == 1900
DISCORD_LIMIT == 2000
NO_DATA == "No data available."

\* SendFenced cutting the body at the limit itself, leaving no room for the fences
RECURSIVE SendFencedAtLimit(_)
SendFencedAtLimit(body) ==
    IF body = "" THEN <<>>
    ELSE <<FENCE \o Slice(body, 0, DISCORD_LIMIT) \o FENCE>>
             \o SendFencedAtLimit(Slice(body, DISCORD_LIMIT, Len(body)))

\* while body: send(fence + body[:1900] + fence); body = body[1900:]
RECURSIVE SendFenced(_)
SendFenced(body) ==
    IF body = "" THEN <<>>
    ELSE <<FENCE \o Slice(body, 0, FENCED_CHUNK) \o FENCE>>
             \o SendFenced(Slice(body, FENCED_CHUNK, Len(body)))

\* SendPlain resuming one character late after each piece
RECURSIVE SendPlainSkipping(_)
SendPlainSkipping(text) ==
    IF text = "" THEN <<>>
    ELSE <<Slice(text, 0, DISCORD_LIMIT)>>
             \o SendPlainSkipping(Slice(text, (DISCORD_LIMIT + 1), Len(text)))

\* while text: send(text[:2000]); text = text[2000:]
RECURSIVE SendPlain(_)
SendPlain(text) ==
    IF text = "" THEN <<>>
    ELSE <<Slice(text, 0, DISCORD_LIMIT)>> \o SendPlain(Slice(text, DISCORD_LIMIT, Len(text)))

IsFenceWrapped(text) == StartsWith(text, FENCE) /\ EndsWith(text, FENCE)

send_long_message(text0) ==
    LET text == IF text0 = "" THEN NO_DATA ELSE text0
    IN  IF IsFenceWrapped(text)
        THEN SendFenced(Slice(text, 3, -3))
        ELSE SendPlain(text)

(***************************************************************************)
(* Python values.  A parsed JSON document is None (null), a bool, a number *)
(* (integers here), a str, a list or a dict with str keys.                 *)
(***************************************************************************)
PBool(b) == [t |-> "bool", v |-> b]
PNum(n) == [t |-> "num", v |-> n]
PStr(s) == [t |-> "str", v |-> s]
PList(seq) == [t |-> "list", v |-> seq]
PDict(f) == [t |-> "dict", v |-> f]
EmptyDict == PDict([k \in {} |-> None])

\* the outcome of an expression: a value, or the exception it raised
Ok(v) == [exc |-> "", val |-> v]
Raise(e) == [exc |-> e, val |-> None]
\* the next step on the value of r, unless r raised
Then(r, step(_)) == IF r.exc = "" THEN step(r.val) ELSE r

\* bool(v)
Truthy(v) ==
    CASE v.t = "None" -> FALSE
      [] v.t = "bool" -> v.v
      [] v.t = "num" -> v.v # 0
      [] v.t = "str" -> v.v # ""
      [] v.t = "list" -> Len(v.v) > 0
      [] v.t = "dict" -> DOMAIN v.v # {}

\* obj.get(key, default): only a dict has the method
Get(obj, key, default) ==
    IF obj.t = "dict"
    THEN Ok(IF key \in DOMAIN obj.v THEN obj.v[key] ELSE default)
    ELSE Raise("AttributeError")

\* obj[i] for an int i >= 0
ItemAt(obj, i) ==
    CASE obj.t = "list" -> IF i < Len(obj.v) THEN Ok(obj.v[i + 1]) ELSE Raise("IndexError")
      [] obj.t = "str" -> IF i < Len(obj.v) THEN Ok(PStr(SubSeq(obj.v, i + 1, i + 1)))
                                            ELSE Raise("IndexError")
      [] obj.t = "dict" -> Raise("KeyError")    \* a JSON dict has no int key
      [] OTHER -> Raise("TypeError")            \* not subscriptable

\* obj[key] for a str key
ItemKey(obj, key) ==
    CASE obj.t = "dict" -> IF key \in DOMAIN obj.v THEN Ok(obj.v[key]) ELSE Raise("KeyError")
      [] OTHER -> Raise("TypeError")    \* list and str indices must be integers

Digits == <<"0", "1", "2", "3", "4", "5", "6", "7", "8", "9">>
RECURSIVE NatToStr(_)
NatToStr(n) ==
    IF n < 10 THEN Digits[n + 1]
    ELSE NatToStr(n \div 10) \o Digits[(n % 10) + 1]
IntToStr(n) == IF n < 0 THEN "-" \o NatToStr(0 - n) ELSE NatToStr(n)

\* str(v), as an f-string formats v (lists and dicts are not formatted here)
Format(v) ==
    CASE v.t = "str" -> v.v
      [] v.t = "num" -> IntToStr(v.v)
      [] v.t = "None" -> "None"
      [] v.t = "bool" -> IF v.v THEN "True" ELSE "False"

\* sep.join(lines)
RECURSIVE Join(_, _)
Join(sep, lines) ==
    IF Len(lines) = 0 THEN ""
    ELSE IF Len(lines) = 1 THEN lines[1]
    ELSE lines[1] \o sep \o Join(sep, Tail(lines))

RECURSIVE LStrip(_)
LStrip(s) == IF s # "" /\ Head(s) \in {" ", "\t", "\n", "\r", "\f"} THEN LStrip(Tail(s)) ELSE s
RECURSIVE RStrip(_)
RStrip(s) ==
    IF s # "" /\ SubSeq(s, Len(s), Len(s)) \in {" ", "\t", "\n", "\r", "\f"}
    THEN RStrip(SubSeq(s, 1, Len(s) - 1)) ELSE s
\* s.strip()
Strip(s) == LStrip(RStrip(s))

(***************************************************************************)
(* _render_games: the flat odds view.                                      *)
(***************************************************************************)
GLYPH_BALL == "*"
GLYPH_VS == "%"
GLYPH_ARROW == ">"
MAX_GAMES == 15
NO_GAMES_ODDS == "No games/odds available at the moment."

\* the try block: bookmakers[0]["markets"][0]["outcomes"], then [0]["price"]
\* and [1]["price"]; the value is <<home_odds, away_odds>>, or the exception
\* of the first step that raised
OutcomePrice(outcomes, i) == Then(ItemAt(outcomes, i), LAMBDA o : ItemKey(o, "price"))
ExtractOdds(bookmakers) ==
    Then(ItemAt(bookmakers, 0), LAMBDA bookmaker :
    Then(ItemKey(bookmaker, "markets"), LAMBDA markets :
    Then(ItemAt(markets, 0), LAMBDA market :
    Then(ItemKey(market, "outcomes"), LAMBDA outcomes :
    Then(OutcomePrice(outcomes, 0), LAMBDA home_odds :
    Then(OutcomePrice(outcomes, 1), LAMBDA away_odds :
    Ok(<<home_odds, away_odds>>)))))))

\* the two lines appended for a kept game
GameLines(home, away, home_odds, away_odds) ==
    << "\n" \o GLYPH_BALL \o " " \o Format(home) \o " " \o GLYPH_VS \o " " \o Format(away),
       GLYPH_ARROW \o " " \o Format(home) \o ": " \o Format(home_odds) \o " | "
           \o Format(away) \o ": " \o Format(away_odds) >>

\* one pass of the loop body: the lines it appends (none when it continues),
\* or the exception it raised
OddsLines(home, away, odds) ==
    IF odds.exc = "" THEN Ok(GameLines(home, away, odds.val[1], odds.val[2]))
    ELSE IF (odds.exc \in {"KeyError", "IndexError", "TypeError"}) THEN Ok(<<>>)
    ELSE odds
KeepOrSkip(home, away, bookmakers) ==
    IF ~Truthy(bookmakers) THEN Ok(<<>>)
    ELSE OddsLines(home, away, ExtractOdds(bookmakers))
RenderGame(game) ==
    Then(Get(game, "home_team", PStr("Unknown Home")), LAMBDA home :
    Then(Get(game, "away_team", PStr("Unknown Away")), LAMBDA away :
    Then(Get(game, "bookmakers", None), LAMBDA got :
    KeepOrSkip(home, away, IF Truthy(got) THEN got ELSE PList(<<>>)))))

\* the for loop from games[i] on (i from 1), with the lines and the count of
\* kept games so far; the value is the lines, or the exception that left it
RECURSIVE RenderLoop(_, _, _, _)
\* RenderStep counting a skipped record towards the limit
RenderStepCountingSkipped(games, i, lines, added, body) ==
    IF body.exc # "" THEN body
    ELSE IF added + 1 >= MAX_GAMES THEN Ok(lines \o body.val)
    ELSE RenderLoop(games, i + 1, lines \o body.val, added + 1)

RenderStep(games, i, lines, added, body) ==
    IF body.exc # "" THEN body
    ELSE IF body.val = <<>> THEN RenderLoop(games, i + 1, lines, added)
    ELSE IF added + 1 >= MAX_GAMES THEN Ok(lines \o body.val)
    ELSE RenderLoop(games, i + 1, lines \o body.val, added + 1)
RenderLoop(games, i, lines, added) ==
    IF i > Len(games) THEN Ok(lines)
    ELSE RenderStep(games, i, lines, added, RenderGame(games[i]))

\* for game in games: the items a for loop draws from a value
Iterate(v) ==
    CASE v.t = "list" -> Ok(v.v)
      [] v.t = "str" -> Ok([i \in 1..Len(v.v) |-> PStr(SubSeq(v.v, i, i))])
      [] v.t = "dict" ->
            LET RECURSIVE Keys(_)
                Keys(S) == IF S = {} THEN <<>>
                           ELSE LET k == CHOOSE x \in S : TRUE
                                IN  <<PStr(k)>> \o Keys(S \ {k})
            IN  Ok(Keys(DOMAIN v.v))
      [] OTHER -> Raise("TypeError")    \* not iterable

\* rendered.strip() != fence + title + fence
IsNotEmptyBlock(rendered, title) == Strip(rendered) # FENCE \o title \o FENCE

\* lines.append(fence); "\n".join(lines); the check for the empty block
FinishRender(lines, title) ==
    IF IsNotEmptyBlock(Join("\n", lines \o <<FENCE>>), title)
    THEN Join("\n", lines \o <<FENCE>>)
    ELSE NO_GAMES_ODDS

_render_games(games, title) ==
    Then(Iterate(games), LAMBDA items :
    Then(RenderLoop(items, 1, <<FENCE \o title>>, 0), LAMBDA lines :
    Ok(FinishRender(lines, title))))

(***************************************************************************)
(* datetime: an instant is a count of seconds since 1970-01-01T00:00:00Z   *)
(* (datetime.now has microseconds; whole seconds keep every comparison the *)
(* program makes).  A datetime value is aware (it has an offset, v is its  *)
(* instant) or naive (v is its wall clock read as if UTC).                 *)
(***************************************************************************)
PDatetime(v, aware) == [t |-> "datetime", v |-> v, aware |-> aware]
DaySeconds == 24 * 3600

\* days since 1970-01-01 of a proleptic Gregorian date, and back
ShiftedYear(y, m) == IF m <= 2 THEN y - 1 ELSE y
DayOfShiftedYear(m, d) == (153 * (IF m > 2 THEN m - 3 ELSE m + 9) + 2) \div 5 + d - 1
DayOfEra(yoe, doy) == yoe * 365 + yoe \div 4 - yoe \div 100 + doy
DaysFromCivil(y, m, d) ==
    (ShiftedYear(y, m) \div 400) * 146097
        + DayOfEra(ShiftedYear(y, m) % 400, DayOfShiftedYear(m, d)) - 719468

YearOfEra(doe) == (doe - doe \div 1460 + doe \div 36524 - doe \div 146096) \div 365
DayOfYearIn(doe, yoe) == doe - (365 * yoe + yoe \div 4 - yoe \div 100)
MonthOfDoy(doy) == IF (5 * doy + 2) \div 153 < 10 THEN (5 * doy + 2) \div 153 + 3
                   ELSE (5 * doy + 2) \div 153 - 9
DayOfDoy(doy) == doy - (153 * ((5 * doy + 2) \div 153) + 2) \div 5 + 1
CivilOfEra(era, doe, doy) ==
    [ year |-> YearOfEra(doe) + era * 400 + (IF MonthOfDoy(doy) <= 2 THEN 1 ELSE 0),
      month |-> MonthOfDoy(doy), day |-> DayOfDoy(doy) ]
CivilOfShifted(z) ==
    CivilOfEra(z \div 146097, z % 146097,
               DayOfYearIn(z % 146097, YearOfEra(z % 146097)))
CivilFromDays(days) == CivilOfShifted(days + 719468)

\* 0 is Sunday; 1970-01-01 was a Thursday
Weekday(days) == (days + 4) % 7
IsLeap(y) == (y % 4 = 0 /\ y % 100 # 0) \/ y % 400 = 0
DaysInMonth(y, m) ==
    IF m = 2 THEN (IF IsLeap(y) THEN 29 ELSE 28)
    ELSE IF m \in {4, 6, 9, 11} THEN 30 ELSE 31

DigitValues == [c \in { Digits[d] : d \in 1..10 } |-> CHOOSE d \in 0..9 : Digits[d + 1] = c]
IsDigits(s) == \A i \in 1..Len(s) : (SubSeq(s, i, i) \in DOMAIN DigitValues)
RECURSIVE StrToNat(_)
StrToNat(s) ==
    IF s = "" THEN 0
    ELSE 10 * StrToNat(SubSeq(s, 1, Len(s) - 1)) + DigitValues[SubSeq(s, Len(s), Len(s))]

\* ts.replace("Z", "+00:00"): every Z
RECURSIVE ReplaceZ(_)
ReplaceZ(s) ==
    IF s = "" THEN ""
    ELSE (IF Head(s) = "Z" THEN "+00:00" ELSE Head(s)) \o ReplaceZ(Tail(s))

\* datetime.fromisoformat on YYYY-MM-DD?HH:MM:SS and on the same followed by
\* +HH:MM or -HH:MM; any other text raises ValueError (the date-only and
\* fractional forms Python also reads are not among the texts drawn)
WellFormedDateTime(s) ==
    /\ Len(s) >= 19
    /\ IsDigits(SubSeq(s, 1, 4)) /\ SubSeq(s, 5, 5) = "-"
    /\ IsDigits(SubSeq(s, 6, 7)) /\ SubSeq(s, 8, 8) = "-"
    /\ IsDigits(SubSeq(s, 9, 10))
    /\ IsDigits(SubSeq(s, 12, 13)) /\ SubSeq(s, 14, 14) = ":"
    /\ IsDigits(SubSeq(s, 15, 16)) /\ SubSeq(s, 17, 17) = ":"
    /\ IsDigits(SubSeq(s, 18, 19))
    /\ StrToNat(SubSeq(s, 1, 4)) >= 1
    /\ StrToNat(SubSeq(s, 6, 7)) \in 1..12
    /\ StrToNat(SubSeq(s, 9, 10)) \in 1..DaysInMonth(StrToNat(SubSeq(s, 1, 4)), StrToNat(SubSeq(s, 6, 7)))
    /\ StrToNat(SubSeq(s, 12, 13)) <= 23 /\ StrToNat(SubSeq(s, 15, 16)) <= 59 /\ StrToNat(SubSeq(s, 18, 19)) <= 59
WellFormedOffset(s) ==
    /\ Len(s) = 25
    /\ SubSeq(s, 20, 20) \in {"+", "-"}
    /\ IsDigits(SubSeq(s, 21, 22)) /\ SubSeq(s, 23, 23) = ":" /\ IsDigits(SubSeq(s, 24, 25))
    /\ StrToNat(SubSeq(s, 21, 22)) <= 23 /\ StrToNat(SubSeq(s, 24, 25)) <= 59
WallSeconds(s) ==
    DaysFromCivil(StrToNat(SubSeq(s, 1, 4)), StrToNat(SubSeq(s, 6, 7)), StrToNat(SubSeq(s, 9, 10))) * DaySeconds
        + StrToNat(SubSeq(s, 12, 13)) * 3600 + StrToNat(SubSeq(s, 15, 16)) * 60 + StrToNat(SubSeq(s, 18, 19))
OffsetSeconds(s) ==
    (IF SubSeq(s, 20, 20) = "-" THEN -1 ELSE 1) * (StrToNat(SubSeq(s, 21, 22)) * 3600 + StrToNat(SubSeq(s, 24, 25)) * 60)
FromIsoFormat(s) ==
    IF ~WellFormedDateTime(s) THEN Raise("ValueError")
    ELSE IF Len(s) = 19 THEN Ok(PDatetime(WallSeconds(s), FALSE))
    ELSE IF WellFormedOffset(s) THEN Ok(PDatetime(WallSeconds(s) - OffsetSeconds(s), TRUE))
    ELSE Raise("ValueError")

\* only a str has replace
_parse_start(ts) ==
    IF ts.t = "str" THEN FromIsoFormat(ReplaceZ(ts.v)) ELSE Raise("AttributeError")

\* a > b and a <= b: an aware and a naive datetime do not compare
Greater(a, b) == IF a.aware = b.aware THEN Ok(a.v > b.v) ELSE Raise("TypeError")

\* America/Chicago (the rules in force since 2007): UTC-5 from 08:00 UTC on
\* the second Sunday of March to 07:00 UTC on the first Sunday of November,
\* UTC-6 otherwise
NthSunday(y, m, n) == 1 + ((7 - Weekday(DaysFromCivil(y, m, 1))) % 7) + 7 * (n - 1)
DstStart(y) == DaysFromCivil(y, 3, NthSunday(y, 3, 2)) * DaySeconds + 8 * 3600
DstEnd(y) == DaysFromCivil(y, 11, NthSunday(y, 11, 1)) * DaySeconds + 7 * 3600
ChicagoOffset(instant) ==
    IF DstStart((CivilFromDays(instant \div DaySeconds).year)) <= instant /\ instant < DstEnd((CivilFromDays(instant \div DaySeconds).year))
    THEN -5 * 3600 ELSE -6 * 3600

DayNames == <<"Sun", "Mon", "Tue", "Wed", "Thu", "Fri", "Sat">>
MonthNames == <<"Jan", "Feb", "Mar", "Apr", "May", "Jun",
                "Jul", "Aug", "Sep", "Oct", "Nov", "Dec">>
Pad2(n) == IF n < 10 THEN "0" \o NatToStr(n) ELSE NatToStr(n)
Hour12(h) == IF h % 12 = 0 THEN 12 ELSE h % 12

\* strftime("%a %b %d, %I:%M %p") of a wall clock
StrFTime(wall) ==
    DayNames[Weekday(wall \div DaySeconds) + 1] \o " "
        \o MonthNames[CivilFromDays(wall \div DaySeconds).month] \o " "
        \o Pad2(CivilFromDays(wall \div DaySeconds).day) \o ", "
        \o Pad2(Hour12((wall % DaySeconds) \div 3600)) \o ":"
        \o Pad2((wall % 3600) \div 60) \o " "
        \o (IF (wall % DaySeconds) \div 3600 < 12 THEN "AM" ELSE "PM")

\* an aware datetime, shown in America/Chicago
_format_local(dt_utc) ==
    CASE dt_utc.aware -> StrFTime(dt_utc.v + ChicagoOffset(dt_utc.v))

(***************************************************************************)
(* _filter_and_group_by_day: the windowed schedule view.  buckets is       *)
(* Python's dict in insertion order: a sequence of [day, games], games the *)
(* (label, away, home) triples of that day.                                *)
(***************************************************************************)
GLYPH_LIVE == "#"
GLYPH_CLOCK == "~"
GLYPH_DASH == "^"
DEFAULT_DAYS == 3
NO_GAMES_FOUND == "No games found."
NO_GAMES_IN_WINDOW == "No games within the next 3 days."

\* s.split(",")[0]
RECURSIVE BeforeComma(_)
BeforeComma(s) ==
    IF s = "" \/ Head(s) = "," THEN "" ELSE Head(s) \o BeforeComma(Tail(s))

\* buckets.setdefault(day_key, []).append(entry)
AddToBucket(buckets, day, entry) ==
    IF (\E j \in 1..Len(buckets) : buckets[j].day = day)
    THEN [j \in 1..Len(buckets) |->
             IF buckets[j].day = day
             THEN [day |-> day, games |-> Append(buckets[j].games, entry)]
             ELSE buckets[j]]
    ELSE Append(buckets, [day |-> day, games |-> <<entry>>])

\* LabelOf with < in place of <=
LabelOfStrict(start, now) == IF start.v < now.v THEN "LIVE" ELSE _format_local(start)

\* "LIVE" if start <= now else _format_local(start)
LabelOf(start, now) == IF start.v <= now.v THEN "LIVE" ELSE _format_local(start)

\* one pass of the loop body on g: the buckets after it, or the exception
KeepGame(g, start, buckets, now) ==
    Then(Get(g, "away_team", PStr("Away")), LAMBDA away :
    Then(Get(g, "home_team", PStr("Home")), LAMBDA home :
    Ok(AddToBucket(buckets, BeforeComma(_format_local(start)),
                   <<LabelOf(start, now), away, home>>))))
WindowGame(g, start, buckets, now, end) ==
    Then(Greater(start, end), LAMBDA after :
    IF after THEN Ok(buckets) ELSE KeepGame(g, start, buckets, now))
FilterGame(g, buckets, now, end) ==
    Then(Get(g, "commence_time", None), LAMBDA ts :
    IF ~Truthy(ts) THEN Ok(buckets)
    ELSE Then(_parse_start(ts), LAMBDA start : WindowGame(g, start, buckets, now, end)))

\* the for loop from data[i] on (i from 1)
RECURSIVE FilterLoop(_, _, _, _, _)
FilterLoop(data, i, buckets, now, end) ==
    IF i > Len(data) THEN Ok(buckets)
    ELSE Then(FilterGame(data[i], buckets, now, end), LAMBDA more :
         FilterLoop(data, i + 1, more, now, end))

ScheduleLine(entry) ==
    (IF entry[1] = "LIVE" THEN GLYPH_LIVE ELSE GLYPH_CLOCK) \o " " \o Format(entry[2])
        \o " @ " \o Format(entry[3]) \o " " \o GLYPH_DASH \o " " \o entry[1]
RECURSIVE BucketLines(_)
BucketLines(buckets) ==
    IF Len(buckets) = 0 THEN <<>>
    ELSE <<"\n=== " \o Head(buckets).day \o " ===">>
             \o [k \in 1..Len(Head(buckets).games) |-> ScheduleLine(Head(buckets).games[k])]
             \o BucketLines(Tail(buckets))
RenderSchedule(buckets, title) ==
    IF Len(buckets) = 0 THEN NO_GAMES_IN_WINDOW
    ELSE Join("\n", <<FENCE \o title \o " (Today + 2 days)">> \o BucketLines(buckets)
                        \o <<FENCE>>)

\* now is what datetime.now(timezone.utc) returns during the call
_filter_and_group_by_day(data, days_ahead, title, now) ==
    IF ~Truthy(data) THEN Ok(NO_GAMES_FOUND)
    ELSE Then(Iterate(data), LAMBDA items :
         Then(FilterLoop(items, 1, <<>>, PDatetime(now, TRUE),
                         PDatetime(now + days_ahead * DaySeconds, TRUE)), LAMBDA buckets :
         Ok(RenderSchedule(buckets, title))))

(***************************************************************************)
(* _fetch_odds_raw: the Odds API client.  http is what the API does with   *)
(* the one request: a transport failure (with the exception's text), or a  *)
(* response with a status and a body that is JSON (with its parsed value)  *)
(* or is not.  The value is the (data, err) pair and the requests made.    *)
(***************************************************************************)
BASE_URL == "https://api.the-odds-api.com/v4/sports/basketball/odds"
NBA_URL == "https://api.the-odds-api.com/v4/sports/basketball_nba/odds"
COLLEGE_URL == "https://api.the-odds-api.com/v4/sports/basketball_ncaab/odds"

NetworkError(e) == [kind |-> "network_error", e |-> e]
Response(status, is_json, value) ==
    [kind |-> "response", status |-> status, is_json |-> is_json, value |-> value]

Fetched(data, err, reqs) == [data |-> data, err |-> err, requests |-> reqs]

\* the (data, err) pair of one attempt
FetchResult(http) ==
    IF http.kind = "network_error"
    THEN <<None, PStr("Network error contacting Odds API: " \o http.e)>>
    ELSE IF http.status # 200
    THEN <<None, PStr("Odds API error: HTTP " \o IntToStr(http.status))>>
    ELSE IF http.is_json THEN <<http.value, None>>
    ELSE <<None, PStr("Odds API returned invalid JSON.")>>

\* _fetch_odds_raw asking a second time when the first attempt failed
FetchWithRetry(sport_url, http) ==
    Fetched(FetchResult(http)[1], FetchResult(http)[2],
            IF FetchResult(http)[2] = None THEN <<sport_url>> ELSE <<sport_url, sport_url>>)

_fetch_odds_raw(sport_url, http) ==
    Fetched(FetchResult(http)[1], FetchResult(http)[2], <<sport_url>>)

(***************************************************************************)
(* The get_* operations.  The value is what the operation returned or      *)
(* raised, the renderer it called (if any) and the requests it made.       *)
(***************************************************************************)
ODDS_TITLE == "Basketball Odds (US Only):"
NBA_ODDS_TITLE == "NBA Odds (US Only):"
COLLEGE_ODDS_TITLE == "College Basketball Odds (US Only):"

Got(r, renderer, fetched) ==
    [exc |-> r.exc, val |-> r.val, renderer |-> renderer, requests |-> fetched.requests]

\* if err: return prefix + err; if not data: return no_data; return _render_games(...)
OddsReply(fetched, prefix, no_data, title) ==
    IF Truthy(fetched.err) THEN Got(Ok(prefix \o Format(fetched.err)), "none", fetched)
    ELSE IF ~Truthy(fetched.data) THEN Got(Ok(no_data), "none", fetched)
    ELSE Got(_render_games(fetched.data, title), "_render_games", fetched)

\* if err: return prefix + err; return _filter_and_group_by_day(...)
WindowReply(fetched, prefix, days, title, now) ==
    IF Truthy(fetched.err) THEN Got(Ok(prefix \o Format(fetched.err)), "none", fetched)
    ELSE Got(_filter_and_group_by_day(fetched.data, days, title, now),
             "_filter_and_group_by_day", fetched)

get_all_basketball_odds(http) ==
    OddsReply(_fetch_odds_raw(BASE_URL, http), "Error fetching odds: ",
              "No live basketball games or odds available right now.", ODDS_TITLE)
get_nba_odds(http) ==
    OddsReply(_fetch_odds_raw(NBA_URL, http), "Error fetching NBA odds: ",
              "No live NBA games or odds available right now.", NBA_ODDS_TITLE)
get_college_odds(http) ==
    OddsReply(_fetch_odds_raw(COLLEGE_URL, http), "Error fetching College Basketball odds: ",
              "No live College Basketball games or odds available right now.",
              COLLEGE_ODDS_TITLE)
get_all_games_window(days, http, now) ==
    WindowReply(_fetch_odds_raw(BASE_URL, http), "Error fetching games: ",
                days, "Basketball Schedule", now)
get_nba_games_window(days, http, now) ==
    WindowReply(_fetch_odds_raw(NBA_URL, http), "Error fetching NBA games: ",
                days, "NBA Schedule", now)
get_college_games_window(days, http, now) ==
    WindowReply(_fetch_odds_raw(COLLEGE_URL, http), "Error fetching College games: ",
                days, "College Basketball Schedule", now)

(***************************************************************************)
(* on_message: the command dispatcher.  The value is the handlers that     *)
(* ran, the messages sent, the requests made and the exception raised.     *)
(***************************************************************************)
CLIENT_USER == "GroupiesBet"
PREFIX == "!G"
COMMANDS_LISTING ==
    "ping, games, nba_games, college_games, nba_odds, college_odds! "
        \o "(make sure to add a space between !G and the command you run)"

\* the lower-case letter of each upper-case ASCII letter
LowerOf ==
    [A |-> "a", B |-> "b", C |-> "c", D |-> "d", E |-> "e", F |-> "f", G |->
     "g", H |-> "h", I |-> "i", J |-> "j", K |-> "k", L |-> "l", M |-> "m", N
     |-> "n", O |-> "o", P |-> "p", Q |-> "q", R |-> "r", S |-> "s", T |->
     "t", U |-> "u", V |-> "v", W |-> "w", X |-> "x", Y |-> "y", Z |-> "z"]
\* s.lower()
RECURSIVE Lower(_)
Lower(s) == IF s = "" THEN "" ELSE (IF Head(s) \in DOMAIN LowerOf THEN LowerOf[Head(s)] ELSE Head(s)) \o Lower(Tail(s))

\* the chain of if statements, in order: the literal compared and the handler
Commands ==
    << <<"!G ping", "ping">>, <<"!G commands", "commands">>, <<"!G odds", "odds">>,
       <<"!G nba_odds", "nba_odds">>, <<"!G college_odds", "college_odds">>,
       <<"!G games", "games">>, <<"!G nba_games", "nba_games">>,
       <<"!G college_games", "college_games">> >>

\* the condition startswith in place of lower() ==
CommandMatchesPrefix(content, literal) == StartsWith(content, literal)

\* content.lower() == literal
CommandMatches(content, literal) == Lower(content) = literal

\* the handler of the first if statement that matches, "none" when none does
RECURSIVE FirstMatch(_, _)
FirstMatch(content, i) ==
    IF i > Len(Commands) THEN "none"
    ELSE IF CommandMatches(content, Commands[i][1]) THEN Commands[i][2]
    ELSE FirstMatch(content, i + 1)

Handled(handlers, msgs, reqs, exc) ==
    [handlers |-> handlers, sent |-> msgs, requests |-> reqs, exc |-> exc]

\* msg = get_...(); return await send_long_message(message.channel, msg)
SendReply(handler, got) ==
    IF got.exc # "" THEN Handled(<<handler>>, <<>>, got.requests, got.exc)
    ELSE Handled(<<handler>>, send_long_message(got.val), got.requests, "")

RunHandler(handler, http, now) ==
    CASE handler = "none" -> Handled(<<>>, <<>>, <<>>, "")
      [] handler = "ping" -> Handled(<<handler>>, <<"Pong!">>, <<>>, "")
      [] handler = "commands" -> Handled(<<handler>>, <<COMMANDS_LISTING>>, <<>>, "")
      [] handler = "odds" -> SendReply(handler, get_all_basketball_odds(http))
      [] handler = "nba_odds" -> SendReply(handler, get_nba_odds(http))
      [] handler = "college_odds" -> SendReply(handler, get_college_odds(http))
      [] handler = "games" -> SendReply(handler, get_all_games_window(DEFAULT_DAYS, http, now))
      [] handler = "nba_games" ->
            SendReply(handler, get_nba_games_window(DEFAULT_DAYS, http, now))
      [] handler = "college_games" ->
            SendReply(handler, get_college_games_window(DEFAULT_DAYS, http, now))

on_message(author, content, http, now) ==
    IF author = CLIENT_USER THEN Handled(<<>>, <<>>, <<>>, "")
    ELSE IF ~StartsWith(Strip(content), PREFIX) THEN Handled(<<>>, <<>>, <<>>, "")
    ELSE RunHandler(FirstMatch(Strip(content), 1), http, now)

(***************************************************************************)
(* The game records of a payload.  Record i names its teams H<i> and A<i>  *)
(* and prices them 100+i and 200+i; its kind says what its bookmakers      *)
(* field holds.                                                            *)
(***************************************************************************)
Outcome(name, price) == PDict([name |-> PStr(name), price |-> PNum(price)])
Market(outcomes) == PDict([key |-> PStr("h2h"), outcomes |-> PList(outcomes)])
Bookmaker(markets) == PDict([key |-> PStr("fanduel"), markets |-> PList(markets)])
WithBookmakers(i, b) ==
    PDict([k \in {"home_team", "away_team", "bookmakers"} |->
              IF k = "bookmakers" THEN b ELSE [home_team |-> PStr(("H" \o IntToStr(i))), away_team |-> PStr(("A" \o IntToStr(i)))][k]])
TwoOutcomes(i) == <<Outcome(("H" \o IntToStr(i)), 100 + i), Outcome(("A" \o IntToStr(i)), 200 + i)>>

ValidKinds == {"valid", "valid3", "noteams"}
SkippedKinds ==
    {"nokey", "empty", "null", "nomarkets", "emptymarkets", "oneoutcome",
     "noprice", "strbookmaker", "numbookmakers"}

GameOfKind(kind, i) ==
    CASE kind = "valid" -> WithBookmakers(i, PList(<<Bookmaker(<<Market(TwoOutcomes(i))>>)>>))
      [] kind = "valid3" ->
            WithBookmakers(i, PList(<<Bookmaker(<<Market(TwoOutcomes(i)
                                          \o <<Outcome("Draw", 300 + i)>>)>>)>>))
      [] kind = "noteams" ->
            PDict([bookmakers |-> PList(<<Bookmaker(<<Market(TwoOutcomes(i))>>)>>)])
      [] kind = "nokey" -> PDict([home_team |-> PStr(("H" \o IntToStr(i))), away_team |-> PStr(("A" \o IntToStr(i)))])
      [] kind = "empty" -> WithBookmakers(i, PList(<<>>))
      [] kind = "null" -> WithBookmakers(i, None)
      [] kind = "nomarkets" -> WithBookmakers(i, PList(<<PDict([key |-> PStr("fanduel")])>>))
      [] kind = "emptymarkets" -> WithBookmakers(i, PList(<<Bookmaker(<<>>)>>))
      [] kind = "oneoutcome" ->
            WithBookmakers(i, PList(<<Bookmaker(<<Market(<<Outcome(("H" \o IntToStr(i)), 100 + i)>>)>>)>>))
      [] kind = "noprice" ->
            WithBookmakers(i, PList(<<Bookmaker(<<Market(<<Outcome(("H" \o IntToStr(i)), 100 + i),
                                          PDict([name |-> PStr(("A" \o IntToStr(i)))])>>)>>)>>))
      [] kind = "strbookmaker" -> WithBookmakers(i, PList(<<PStr("fanduel")>>))
      [] kind = "numbookmakers" -> WithBookmakers(i, PNum(5))
      [] kind = "notdict" -> PStr(("H" \o IntToStr(i)))

\* n records: kind k1 at every m-th place, kind k2 at the others
GamesOf(n, m, k1, k2) == [i \in 1..n |-> GameOfKind(IF i % m = 0 THEN k1 ELSE k2, i)]

MaxGames == 24
MaxPeriod == 3
GameLists ==
    { GamesOf(n, m, k1, k2) :
        n \in {0, 1, 2, MAX_GAMES, MAX_GAMES + 1, 20, MaxGames}, m \in 1..MaxPeriod, k1 \in (ValidKinds \cup SkippedKinds) \cup {"notdict"},
        k2 \in {"valid", "nokey", "noprice"} }

\* payloads that are not a list of records
OddPayloads == { PDict([message |-> PStr("quota reached")]), PStr("ok"), PNum(5) }

(***************************************************************************)
(* Schedule records.  A record is drawn as a kind of commence_time and an  *)
(* offset in seconds from now; the aware kinds write the instant now +     *)
(* offset as ISO-8601 text with a Z, with +00:00 or with -06:00.           *)
(***************************************************************************)
IsoWall(wall) ==
    NatToStr(CivilFromDays(wall \div DaySeconds).year) \o "-"
        \o Pad2(CivilFromDays(wall \div DaySeconds).month) \o "-"
        \o Pad2(CivilFromDays(wall \div DaySeconds).day) \o "T"
        \o Pad2((wall % DaySeconds) \div 3600) \o ":"
        \o Pad2((wall % 3600) \div 60) \o ":" \o Pad2(wall % 60)

AwareKinds == {"Z", "utc", "chicago"}

CommenceTime(kind, instant) ==
    CASE kind = "Z" -> PStr(IsoWall(instant) \o "Z")
      [] kind = "utc" -> PStr(IsoWall(instant) \o "+00:00")
      [] kind = "chicago" -> PStr(IsoWall(instant - 6 * 3600) \o "-06:00")
      [] kind = "naive" -> PStr(IsoWall(instant))
      [] kind = "text" -> PStr("TBD")
      [] kind = "number" -> PNum(instant)
      [] kind = "null" -> None
      [] kind = "emptystr" -> PStr("")

Desc(kind, offset) == [kind |-> kind, offset |-> offset]
ScheduleGame(d, i, now) ==
    IF d.kind = "notdict" THEN PStr(("H" \o IntToStr(i)))
    ELSE IF d.kind = "missing" THEN GameOfKind("valid", i)
    ELSE PDict([k \in {"home_team", "away_team", "bookmakers", "commence_time"} |->
                   IF k = "commence_time" THEN CommenceTime(d.kind, now + d.offset)
                   ELSE GameOfKind("valid", i).v[k]])
ScheduleOf(descs, now) == [i \in 1..Len(descs) |-> ScheduleGame(descs[i], i, now)]

MaxDays == 3
MaxSchedule == 2
\* the records the schedule view is run on, and those a payload may hold
Descs ==
    { Desc("Z", o) : o \in ({0 - DaySeconds, 0, 1, 1800, 4 * DaySeconds} \cup { w * DaySeconds + d : w \in {1, MaxDays}, d \in {0, 1} }) }
        \cup { Desc("utc", 0), Desc("chicago", 1800), Desc("missing", 0), Desc("text", 0) }
AnyDescs ==
    Descs \cup { Desc(k, 0) : k \in {"naive", "text", "number"} \cup {"missing", "null", "emptystr"} \cup {"notdict"} }
DescLists(n) == UNION { [1..k -> Descs] : k \in 0..n }

\* a Saturday evening in Chicago, hours before daylight time ends, and a
\* winter night
Nows ==
    { DaysFromCivil(2025, 11, 1) * DaySeconds + 23 * 3600 + 30 * 60,
      DaysFromCivil(2026, 1, 15) * DaySeconds + 5 * 3600 + 59 * 60 + 59 }

(***************************************************************************)
(* What the Odds API may answer.                                           *)
(***************************************************************************)
HttpFailures ==
    { NetworkError("Read timed out."), NetworkError(""),
      Response(500, FALSE, None), Response(401, TRUE, PDict([message |-> PStr("bad key")])),
      Response(429, TRUE, PList(<<>>)), Response(200, FALSE, None) }
Payloads(now) ==
    { None, PList(<<>>), EmptyDict } \cup OddPayloads
        \cup { PList(ScheduleOf(<<d>>, now)) : d \in AnyDescs }
        \cup { PList(GamesOf(2, 2, k1, "valid")) : k1 \in (ValidKinds \cup SkippedKinds) \cup {"notdict"} }
HttpAnswers(now) == HttpFailures \cup { Response(200, TRUE, v) : v \in Payloads(now) }

(***************************************************************************)
(* The messages the host may deliver.                                      *)
(***************************************************************************)
Vocabulary ==
    {"ping", "commands", "odds", "nba_odds", "college_odds", "games", "nba_games",
     "college_games"}
UpperOf ==
    [a |-> "A", b |-> "B", c |-> "C", d |-> "D", e |-> "E", f |-> "F", g |->
     "G", h |-> "H", i |-> "I", j |-> "J", k |-> "K", l |-> "L", m |-> "M", n
     |-> "N", o |-> "O", p |-> "P", q |-> "Q", r |-> "R", s |-> "S", t |->
     "T", u |-> "U", v |-> "V", w |-> "W", x |-> "X", y |-> "Y", z |-> "Z"]
RECURSIVE Upper(_)
Upper(s) == IF s = "" THEN "" ELSE (IF Head(s) \in DOMAIN UpperOf THEN UpperOf[Head(s)] ELSE Head(s)) \o Upper(Tail(s))

Contents ==
    UNION { { "!G " \o w, "!G " \o Upper(w), "!G " \o ((IF Head(w) \in DOMAIN UpperOf THEN UpperOf[Head(w)] ELSE Head(w)) \o Tail(w)), "!g " \o w,
              "  !G " \o w \o " \n", "!G" \o w, "!G " \o w \o " now", "!G  " \o w }
            : w \in Vocabulary }
        \cup {"", "hello", "!G", "!G dance", "G! ping", "ping"}
MessageAnswers(now) ==
    { NetworkError("Read timed out."), Response(500, FALSE, None),
      Response(200, TRUE, PList(<<>>)),
      Response(200, TRUE, PList(ScheduleOf(<<Desc("Z", 1800)>>, now))) }

(***************************************************************************)
(* The texts the sender is run on.                                         *)
(***************************************************************************)
MaxChunks == 3
Delta == 2

RECURSIVE Repeat(_, _)
Repeat(s, k) ==
    IF k = 0 THEN ""
    ELSE LET h == Repeat(s, k \div 2)
         IN  IF k % 2 = 0 THEN h \o h ELSE h \o h \o s
\* the first n characters of abcdefgabcdefg...
Fill(n) == SubSeq(Repeat("abcdefg", n \div Len("abcdefg") + 1), 1, n)

SendLens ==
    { n \in { k * c + d : k \in 0..MaxChunks, c \in {FENCED_CHUNK, DISCORD_LIMIT},
                          d \in (0 - Delta)..Delta } : n >= 0 }
        \cup {4500, 5000}
SendTexts ==
    UNION { { Fill(n), FENCE \o Fill(n) \o FENCE, FENCE \o Fill(n), Fill(n) \o FENCE }
            : n \in SendLens }
        \cup { Repeat("'", k) : k \in 3..(7 + Delta) }

Init ==
    /\ op = "none"
    /\ arg = None
    /\ sent = <<>>
    /\ requests = <<>>
    /\ ret = None

CallSendLongMessage ==
    \E text \in SendTexts :
        /\ op = "none"
        /\ op' = "send_long_message"
        /\ arg' = [text |-> text]
        /\ sent' = send_long_message(text)
        /\ ret' = None
        /\ UNCHANGED requests

CallRenderGames ==
    \E games \in { PList(g) : g \in GameLists } \cup OddPayloads, title \in {ODDS_TITLE, NBA_ODDS_TITLE, COLLEGE_ODDS_TITLE} :
        /\ op = "none"
        /\ op' = "_render_games"
        /\ arg' = [games |-> games, title |-> title]
        /\ ret' = _render_games(games, title)
        /\ UNCHANGED <<sent, requests>>

CallFilterAndGroupByDay ==
    \E now \in Nows, days \in {1, MaxDays}, descs \in DescLists(MaxSchedule) :
        /\ op = "none"
        /\ op' = "_filter_and_group_by_day"
        /\ arg' = [data |-> PList(ScheduleOf(descs, now)), days_ahead |-> days,
                   title |-> "NBA Schedule", now |-> now, descs |-> descs]
        /\ ret' = _filter_and_group_by_day(PList(ScheduleOf(descs, now)), days,
                                           "NBA Schedule", now)
        /\ UNCHANGED <<sent, requests>>

CallFetchOddsRaw ==
    \E now \in Nows, url \in {BASE_URL, NBA_URL, COLLEGE_URL} :
        \E http \in HttpAnswers(now) :
            /\ op = "none"
            /\ op' = "_fetch_odds_raw"
            /\ arg' = [sport_url |-> url, http |-> http]
            /\ ret' = [data |-> _fetch_odds_raw(url, http).data,
                       err |-> _fetch_odds_raw(url, http).err]
            /\ requests' = _fetch_odds_raw(url, http).requests
            /\ UNCHANGED sent

\* what a get_* operation returned or raised, and the renderer it called
Returned(got) == [exc |-> got.exc, val |-> got.val, renderer |-> got.renderer]

CallGetAllBasketballOdds ==
    \E now \in Nows : \E http \in HttpAnswers(now) :
        /\ op = "none"
        /\ op' = "get_all_basketball_odds"
        /\ arg' = [http |-> http, now |-> now]
        /\ ret' = Returned(get_all_basketball_odds(http))
        /\ requests' = get_all_basketball_odds(http).requests
        /\ UNCHANGED sent

CallGetNbaOdds ==
    \E now \in Nows : \E http \in HttpAnswers(now) :
        /\ op = "none"
        /\ op' = "get_nba_odds"
        /\ arg' = [http |-> http, now |-> now]
        /\ ret' = Returned(get_nba_odds(http))
        /\ requests' = get_nba_odds(http).requests
        /\ UNCHANGED sent

CallGetCollegeOdds ==
    \E now \in Nows : \E http \in HttpAnswers(now) :
        /\ op = "none"
        /\ op' = "get_college_odds"
        /\ arg' = [http |-> http, now |-> now]
        /\ ret' = Returned(get_college_odds(http))
        /\ requests' = get_college_odds(http).requests
        /\ UNCHANGED sent

CallGetAllGamesWindow ==
    \E now \in Nows : \E http \in HttpAnswers(now) :
        /\ op = "none"
        /\ op' = "get_all_games_window"
        /\ arg' = [http |-> http, now |-> now]
        /\ ret' = Returned(get_all_games_window(DEFAULT_DAYS, http, now))
        /\ requests' = get_all_games_window(DEFAULT_DAYS, http, now).requests
        /\ UNCHANGED sent

CallGetNbaGamesWindow ==
    \E now \in Nows : \E http \in HttpAnswers(now) :
        /\ op = "none"
        /\ op' = "get_nba_games_window"
        /\ arg' = [http |-> http, now |-> now]
        /\ ret' = Returned(get_nba_games_window(DEFAULT_DAYS, http, now))
        /\ requests' = get_nba_games_window(DEFAULT_DAYS, http, now).requests
        /\ UNCHANGED sent

CallGetCollegeGamesWindow ==
    \E now \in Nows : \E http \in HttpAnswers(now) :
        /\ op = "none"
        /\ op' = "get_college_games_window"
        /\ arg' = [http |-> http, now |-> now]
        /\ ret' = Returned(get_college_games_window(DEFAULT_DAYS, http, now))
        /\ requests' = get_college_games_window(DEFAULT_DAYS, http, now).requests
        /\ UNCHANGED sent

\* the host delivers a message; the handler runs to its end
OnMessage ==
    \E author \in {CLIENT_USER, "alice"}, content \in Contents, now \in Nows :
        \E http \in MessageAnswers(now) :
            /\ op = "none"
            /\ op' = "on_message"
            /\ arg' = [author |-> author, content |-> content, http |-> http, now |-> now]
            /\ sent' = on_message(author, content, http, now).sent
            /\ requests' = on_message(author, content, http, now).requests
            /\ ret' = [handlers |-> on_message(author, content, http, now).handlers,
                       exc |-> on_message(author, content, http, now).exc]

\* the call is over; nothing is kept from one call to the next
Return ==
    /\ op # "none"
    /\ op' = "none"
    /\ arg' = None
    /\ sent' = <<>>
    /\ requests' = <<>>
    /\ ret' = None

NextSend == CallSendLongMessage \/ Return
SpecSend == Init /\ [][NextSend]_vars

NextRender == CallRenderGames \/ Return
SpecRender == Init /\ [][NextRender]_vars

NextWindow == CallFilterAndGroupByDay \/ Return
SpecWindow == Init /\ [][NextWindow]_vars

NextGet ==
    \/ CallFetchOddsRaw
    \/ CallGetAllBasketballOdds
    \/ CallGetNbaOdds
    \/ CallGetCollegeOdds
    \/ CallGetAllGamesWindow
    \/ CallGetNbaGamesWindow
    \/ CallGetCollegeGamesWindow
    \/ Return
SpecGet == Init /\ [][NextGet]_vars

NextMessage == OnMessage \/ Return
SpecMessage == Init /\ [][NextMessage]_vars

Next == NextSend \/ NextRender \/ NextWindow \/ NextGet \/ NextMessage
Spec == Init /\ [][Next]_vars

(***************************************************************************)
(* The chunked sender's properties.                                        *)
(***************************************************************************)
CeilDiv(n, d) == (n + d - 1) \div d

RECURSIVE Concat(_)
Concat(seq) == IF Len(seq) = 0 THEN "" ELSE Head(seq) \o Concat(Tail(seq))

\* a sent message is fence + piece + fence
IsWrappedPiece(m) == Len(m) >= 6 /\ StartsWith(m, FENCE) /\ EndsWith(m, FENCE)
PieceOf(m) == SubSeq(m, 4, Len(m) - 3)

\* C3: whatever the text (empty, plain, fence-wrapped, fence markers only),
\* send_long_message sends at least one message, and none longer than 2000.
C3_SendsAtLeastOneWithinLimit ==
    op = "send_long_message" =>
        /\ Len(sent) >= 1
        /\ \A i \in 1..Len(sent) : Len(sent[i]) <= 2000

\* C4: a text that starts and ends with the fence and has an inner body of
\* length n >= 1 is sent as exactly ceil(n/1900) messages, each fence + piece
\* + fence of at most 2000 characters, the pieces in order making the body.
C4_FencedSplit ==
    ( /\ op = "send_long_message"
      /\ StartsWith(arg.text, FENCE) /\ EndsWith(arg.text, FENCE)
      /\ Len(arg.text) - 6 >= 1 ) =>
        /\ Len(sent) = CeilDiv(Len(arg.text) - 6, 1900)
        /\ \A i \in 1..Len(sent) : IsWrappedPiece(sent[i]) /\ Len(sent[i]) <= 2000
        /\ Concat([i \in 1..Len(sent) |-> PieceOf(sent[i])])
               = SubSeq(arg.text, 4, Len(arg.text) - 3)

\* a fence-wrapped text with a body of 5000 went out as 3 messages
C4_Witness ==
    /\ op = "send_long_message"
    /\ StartsWith(arg.text, FENCE) /\ EndsWith(arg.text, FENCE)
    /\ Len(arg.text) = 5006
    /\ Len(sent) = 3

\* C5: a non-empty text that is not fence-wrapped is sent as exactly
\* ceil(n/2000) messages with nothing added, all but the last of length
\* 2000, and the messages in order make the text.
C5_PlainSplit ==
    ( /\ op = "send_long_message"
      /\ arg.text # ""
      /\ ~(StartsWith(arg.text, FENCE) /\ EndsWith(arg.text, FENCE)) ) =>
        /\ Len(sent) = CeilDiv(Len(arg.text), 2000)
        /\ \A i \in 1..(Len(sent) - 1) : Len(sent[i]) = 2000
        /\ Concat(sent) = arg.text

\* a plain text of 4500 went out as 2000, 2000, 500
C5_Witness ==
    /\ op = "send_long_message"
    /\ ~StartsWith(arg.text, FENCE)
    /\ Len(arg.text) = 4500
    /\ [i \in 1..Len(sent) |-> Len(sent[i])] = <<2000, 2000, 500>>

(***************************************************************************)
(* The flat odds view's properties.                                        *)
(***************************************************************************)
\* a record with a non-empty bookmakers list whose first bookmaker's first
\* market has a price at outcomes[0] and at outcomes[1]
HasKey(v, key) == v.t = "dict" /\ key \in DOMAIN v.v
HasItems(v, n) == v.t = "list" /\ Len(v.v) >= n
HasPrices(outcomes) ==
    HasItems(outcomes, 2) /\ HasKey(outcomes.v[1], "price") /\ HasKey(outcomes.v[2], "price")
HasOutcomes(markets) ==
    HasItems(markets, 1) /\ HasKey(markets.v[1], "outcomes")
        /\ HasPrices(markets.v[1].v.outcomes)
HasMarkets(bookmakers) ==
    HasItems(bookmakers, 1) /\ HasKey(bookmakers.v[1], "markets")
        /\ HasOutcomes(bookmakers.v[1].v.markets)
IsValidRecord(g) == HasKey(g, "bookmakers") /\ HasMarkets(g.v.bookmakers)

IsRecordList(games) == games.t = "list" /\ \A i \in 1..Len(games.v) : games.v[i].t = "dict"

FieldOr(g, key, default) == IF key \in DOMAIN g.v THEN g.v[key] ELSE default
PriceAt(g, i) == g.v.bookmakers.v[1].v.markets.v[1].v.outcomes.v[i].v.price
RECURSIVE EntriesOf(_)
EntriesOf(records) ==
    IF Len(records) = 0 THEN <<>>
    ELSE GameLines(FieldOr(Head(records), "home_team", PStr("Unknown Home")),
                   FieldOr(Head(records), "away_team", PStr("Unknown Away")),
                   PriceAt(Head(records), 1), PriceAt(Head(records), 2))
             \o EntriesOf(Tail(records))
FirstValid(games, limit) ==
    SubSeq(SelectSeq(games, IsValidRecord), 1,
           Min(limit, Len(SelectSeq(games, IsValidRecord))))
TitleOnlyBlock(title) == FENCE \o title \o "\n" \o FENCE

\* C2: when no record of the sequence is kept, _render_games returns the
\* fixed message "No games/odds available at the moment.", never a fenced
\* block holding only the title.
C2_NoKeptRecordGivesFixedMessage ==
    ( /\ op = "_render_games"
      /\ IsRecordList(arg.games)
      /\ \A i \in 1..Len(arg.games.v) : ~IsValidRecord(arg.games.v[i]) ) =>
        ret = Ok(NO_GAMES_ODDS)

\* C6: the entries _render_games renders are the first min(15, v) valid
\* records, in input order; the others give no line and do not count
\* towards the 15.
C6_FirstFifteenValidInOrder ==
    ( op = "_render_games" /\ IsRecordList(arg.games) ) =>
        /\ ret.exc = ""
        /\ IF FirstValid(arg.games.v, 15) = <<>>
           THEN ret.val \in {NO_GAMES_ODDS, TitleOnlyBlock(arg.title)}
           ELSE ret.val = Join("\n", <<FENCE \o arg.title>>
                                         \o EntriesOf(FirstValid(arg.games.v, 15))
                                         \o <<FENCE>>)

\* more than 15 valid records, with skipped ones among them, were rendered
C6_Witness ==
    /\ op = "_render_games"
    /\ IsRecordList(arg.games)
    /\ Len(SelectSeq(arg.games.v, IsValidRecord)) > 15
    /\ Len(SelectSeq(arg.games.v, IsValidRecord)) < Len(arg.games.v)
    /\ ~IsValidRecord(arg.games.v[3])
    /\ ret.exc = ""

(***************************************************************************)
(* The windowed schedule view's properties.                                *)
(***************************************************************************)
Contains(s, sub) ==
    \E k \in 1..(Len(s) - Len(sub) + 1) : SubSeq(s, k, k + Len(sub) - 1) = sub
HasLine(text, line) == Contains(text, "\n" \o line \o "\n")

\* record i of the schedule: its start instant, and the lines it may get
StartOf(i) == arg.now + arg.descs[i].offset
Pairing(i) == " " \o ("A" \o IntToStr(i)) \o " @ " \o ("H" \o IntToStr(i)) \o " "
LiveLine(i) == GLYPH_LIVE \o Pairing(i) \o GLYPH_DASH \o " LIVE"
ClockLine(i) ==
    GLYPH_CLOCK \o Pairing(i) \o GLYPH_DASH \o " " \o _format_local(PDatetime(StartOf(i), TRUE))
\* every record has a well-formed aware commence_time, or none at all
AllTimed(descs) == \A i \in 1..Len(descs) : descs[i].kind \in AwareKinds \cup {"missing"}

GetOps ==
    {"get_all_basketball_odds", "get_nba_odds", "get_college_odds",
     "get_all_games_window", "get_nba_games_window", "get_college_games_window"}

CauseOf(http) ==
    IF http.kind = "network_error" THEN "transport"
    ELSE IF http.status # 200 THEN "status"
    ELSE IF ~http.is_json THEN "invalid_json"
    ELSE "none"

\* C8: whatever payload the API returns with status 200, no get_* operation
\* ends in an unhandled error: the renderers return a text.
C8_NoUnhandledError ==
    ( op \in GetOps /\ CauseOf(arg.http) = "none" ) => ret.exc = ""

\* C10: _fetch_odds_raw makes exactly one request and returns (data, no
\* error) or (no data, error text); the text differs between the three
\* causes and holds the status for a non-200 answer; on an error every
\* get_* operation returns a message built from the text and calls no
\* renderer.
C10_FetchOnceAndReportErrors ==
    /\ op = "_fetch_odds_raw" =>
          /\ requests = <<arg.sport_url>>
          /\ IF CauseOf(arg.http) = "none"
             THEN ret.err = None /\ ret.data = arg.http.value
             ELSE /\ ret.data = None
                  /\ ret.err.t = "str" /\ ret.err.v # ""
                  /\ CauseOf(arg.http) = "status" =>
                         Contains(ret.err.v, IntToStr(arg.http.status))
                  /\ \A other \in HttpFailures :
                         CauseOf(other) # CauseOf(arg.http) =>
                             _fetch_odds_raw(arg.sport_url, other).err # ret.err
    /\ op \in GetOps =>
          /\ Len(requests) = 1
          /\ CauseOf(arg.http) # "none" =>
                 /\ ret.exc = ""
                 /\ ret.renderer = "none"
                 /\ StartsWith(ret.val, "Error fetching ")
                 /\ EndsWith(ret.val, ": " \o _fetch_odds_raw(requests[1], arg.http).err.v)

\* get_nba_odds turned an HTTP 500 into its error message
C10_Witness ==
    /\ op = "get_nba_odds"
    /\ arg.http = Response(500, FALSE, None)
    /\ requests = <<NBA_URL>>
    /\ ret.val = "Error fetching NBA odds: Odds API error: HTTP 500"

(***************************************************************************)
(* The command dispatcher's properties.                                    *)
(***************************************************************************)
\* the prefix, one space and the command w in any letter case
IsCommandText(text, w) == StartsWith(text, "!G ") /\ Lower(SubSeq(text, 4, Len(text))) = w
\* a known command, compared without regard to case
IsKnownCommand(text) == \E w \in Vocabulary : Lower(text) = Lower("!G " \o w)

\* C1: a message not from the bot whose trimmed text is "!G", one space and
\* a vocabulary command in any letter case runs exactly that command's
\* handler and sends at least one message.
C1_CommandRunsItsHandler ==
    ( op = "on_message" /\ arg.author # CLIENT_USER ) =>
        \A w \in Vocabulary :
            IsCommandText(Strip(arg.content), w) =>
                ret.handlers = <<w>> /\ Len(sent) >= 1

\* C9: nothing is sent and no request is made when the author is the bot,
\* when the trimmed text does not start with "!G", or when it equals no
\* known command.
C9_SilentWhenNotACommand ==
    ( /\ op = "on_message"
      /\ \/ arg.author = CLIENT_USER
         \/ ~StartsWith(Strip(arg.content), "!G")
         \/ ~IsKnownCommand(Strip(arg.content)) ) =>
        sent = <<>> /\ requests = <<>>

\* a message of another user that starts with the prefix and names no
\* command got no answer
C9_Witness ==
    /\ op = "on_message"
    /\ arg.author = "alice"
    /\ arg.content = "!G dance"
    /\ sent = <<>> /\ requests = <<>>

====
